---------------------------- MODULE Spec2Model ----------------------------
(***************************************************************************)
(* Model of the cellular-automaton stepping kernel of                      *)
(* crates/uft_ca/src/lib.rs: the Lattice3D and GraphCA topology providers, *)
(* the stepping engine (step_lattice_3d, step_graph) and the reference     *)
(* rule conway_3d_rule.                                                    *)
(*                                                                         *)
(* A Vec is a sequence; the source's zero-based index i is position i+1.   *)
(***************************************************************************)
EXTENDS Integers, Sequences, FiniteSets

VARIABLES
    mode,         \* which scenario the caller runs
    lattice,      \* Lattice3D {width, height, depth}
    states,       \* the caller's state array / graph.states
    rule,         \* the OuterTotalisticRule passed to the step function
    pc,           \* position of the step function
    x, y, z,      \* loop variables of step_lattice_3d
    node,         \* loop variable of step_graph
    next_states,  \* the output array under construction / returned
    snapshot,     \* history: the input array as it was when the call began
    gen,          \* number of generations the caller has completed
    origin,       \* history: the lattice state array of generation 0
    adjacency,    \* graph.adjacency: HashMap<usize, Vec<usize>>
    adj0,         \* history: graph.adjacency as it was when the call began
    num_nodes,    \* history: the argument of GraphCA::new
    calls,        \* history: the add_edge calls made, in order
    touched,      \* history: the caller has written graph.states directly
    args,         \* arguments of the function called on its own
    ret,          \* what that function returned
    pending,      \* parallel step: the cells no worker has computed yet
    par_out,      \* parallel step: the output array the workers share
    writes        \* history: how many times each output slot was written

vars == <<mode, lattice, states, rule, pc, x, y, z, node, next_states,
          snapshot, gen, origin, adjacency, adj0, num_nodes, calls, touched,
          args, ret, pending, par_out, writes>>

\* the variables that the sequential step functions leave alone
other_vars == <<args, ret, pending, par_out, writes>>

\* the variables of the graph scenario that the lattice scenario leaves alone
graph_vars == <<origin, adjacency, adj0, num_nodes, calls, touched>>

-----------------------------------------------------------------------------
(* Bounds of the model *)

MaxCells == 8      \* lattices have at most MaxCells cells
MaxLive == 1       \* cells of an initial array that differ from its background
MaxGen == 1        \* generations the caller steps through
MaxNodes == 2      \* GraphCA::new(n) for n in 0..MaxNodes
MaxEdges == 2      \* add_edge calls per graph
MaxWorkers == 4    \* parallel step: lattices have at most MaxWorkers cells
MaxSide == 3       \* moore_neighbors: lattice dimensions range over 1..MaxSide
MaxCount == 26     \* conway_3d_rule: neighbour counts range over 0..MaxCount

U8 == 256          \* number of u8 values

Codes == {0, 1, 2} \* state codes written by the caller

-----------------------------------------------------------------------------
(* Vec helpers *)

Get(v, i) == v[i + 1]

Put(v, i, e) == [v EXCEPT ![i + 1] = e]

Zeros(n) == [i \in 1..n |-> 0]

-----------------------------------------------------------------------------
(* Lattice3D *)

Lattice3D_new(w, h, d) == [width |-> w, height |-> h, depth |-> d]

size(l) == l.width * l.height * l.depth

\* mutant: the row stride is left out
index_without_row_stride(l, cx, cy, cz) == cz * (l.width * l.height) + cy + cx

index(l, cx, cy, cz) == cz * (l.width * l.height) + cy * l.width + cx

\* the 27 offsets in the order of the loops dz, dy, dx over -1..=1
Offsets ==
    [k \in 1..27 |-> [dz |-> ((k - 1) \div 9) - 1,
                      dy |-> (((k - 1) \div 3) % 3) - 1,
                      dx |-> ((k - 1) % 3) - 1]]

\* mutant: the lattice is toroidal, a coordinate off one face wraps around
moore_neighbors_toroidal(l, cx, cy, cz) ==
    LET kept == SelectSeq(Offsets, LAMBDA o :
                    ~(o.dx = 0 /\ o.dy = 0 /\ o.dz = 0))
    IN  [k \in 1..Len(kept) |->
            index(l, (cx + kept[k].dx) % l.width, (cy + kept[k].dy) % l.height,
                     (cz + kept[k].dz) % l.depth)]

\* the offsets that are not (0,0,0) and lead to a coordinate inside the
\* lattice, in loop order; then each is pushed as self.index(nx, ny, nz)
moore_neighbors(l, cx, cy, cz) ==
    LET kept == SelectSeq(Offsets, LAMBDA o :
                    /\ ~(o.dx = 0 /\ o.dy = 0 /\ o.dz = 0)
                    /\ cx + o.dx >= 0 /\ cx + o.dx < l.width
                    /\ cy + o.dy >= 0 /\ cy + o.dy < l.height
                    /\ cz + o.dz >= 0 /\ cz + o.dz < l.depth)
    IN  [k \in 1..Len(kept) |->
            index(l, cx + kept[k].dx, cy + kept[k].dy, cz + kept[k].dz)]

-----------------------------------------------------------------------------
(* Rules *)

\* mutant: any non-zero state survives
conway_any_live_survives(current, neighbor_count) ==
    CASE current = 0 /\ neighbor_count \in 4..7 -> 1
      [] current # 0 /\ neighbor_count \in 4..7 -> 1
      [] OTHER -> 0

\* mutant: birth from any count up to 7, the empty neighbourhood included
conway_birth_from_zero(current, neighbor_count) ==
    CASE current = 0 /\ neighbor_count \in 0..7 -> 1
      [] current = 1 /\ neighbor_count \in 4..7 -> 1
      [] OTHER -> 0

conway_3d_rule(current, neighbor_count) ==
    CASE current = 0 /\ neighbor_count \in 4..7 -> 1
      [] current = 1 /\ neighbor_count \in 4..7 -> 1
      [] OTHER -> 0

\* a second rule, injective in the count, to tell neighbour counts apart
sum_rule(current, neighbor_count) == (current + neighbor_count) % U8

Rules == {"conway_3d_rule", "sum_rule"}

Apply(r, current, neighbor_count) ==
    IF r = "conway_3d_rule" THEN conway_3d_rule(current, neighbor_count)
    ELSE sum_rule(current, neighbor_count)

-----------------------------------------------------------------------------
(* GraphCA *)

\* mutant: the graph is read as undirected, in-edges count as neighbours
get_neighbors_undirected(adj, n) ==
    LET keys == DOMAIN adj
        RECURSIVE Into(_)
        Into(ks) ==
            IF ks = {} THEN << >>
            ELSE LET k == CHOOSE m \in ks : \A o \in ks : m <= o
                 IN  SelectSeq([i \in 1..Len(adj[k]) |-> k],
                               LAMBDA e : \E i \in 1..Len(adj[k]) : adj[k][i] = n)
                     \o Into(ks \ {k})
    IN  (IF n \in keys THEN adj[n] ELSE << >>) \o Into(keys \ {n})

\* HashMap::new(): the map with no key
EmptyMap == [k \in {} |-> << >>]

get_neighbors(adj, n) == IF n \in DOMAIN adj THEN adj[n] ELSE << >>

\* mutant: the reciprocal edge is added as well
add_edge_symmetric(adj, from, to) ==
    LET list(a, k) == IF k \in DOMAIN a THEN a[k] ELSE << >>
        one == [k \in DOMAIN adj \cup {from} |->
                   IF k = from THEN Append(list(adj, from), to) ELSE adj[k]]
    IN  [k \in DOMAIN one \cup {to} |->
            IF k = to THEN Append(list(one, to), from) ELSE one[k]]

\* adjacency.entry(from).or_insert_with(Vec::new).push(to)
add_edge(adj, from, to) ==
    [k \in DOMAIN adj \cup {from} |->
        IF k = from
        THEN Append(IF from \in DOMAIN adj THEN adj[from] ELSE << >>, to)
        ELSE adj[k]]

-----------------------------------------------------------------------------
(* The body of one loop iteration of the stepping engine *)

\* mutant: a neighbour is live only when it is Structural (code 1)
LiveCountStructuralOnly(s, nb) == Len(SelectSeq(nb, LAMBDA n : Get(s, n) = 1))

\* neighbors.iter().filter(|&&n| states[n] != 0).count()
LiveCount(s, nb) == Len(SelectSeq(nb, LAMBDA n : Get(s, n) # 0))

\* some states[n], states[idx] or next_states[idx] indexes past the end
IndexFault(s, idx, nb) ==
    \/ idx >= Len(s)
    \/ \E k \in 1..Len(nb) : nb[k] >= Len(s)

CellValue(s, r, idx, nb) == Apply(r, Get(s, idx), LiveCount(s, nb))

-----------------------------------------------------------------------------
(* Initial states *)

\* arrays of length n that differ from the background b in at most k cells
RECURSIVE NearUniform(_, _, _)
NearUniform(n, b, k) ==
    IF k = 0 THEN {[i \in 1..n |-> b]}
    ELSE LET prev == NearUniform(n, b, k - 1)
         IN  prev \cup UNION {{[a EXCEPT ![p] = v] : p \in 1..n, v \in Codes}
                                : a \in prev}

Arrays(n) == NearUniform(n, 0, MaxLive) \cup NearUniform(n, 1, MaxLive)

\* lattices of at most MaxCells cells, degenerate ones (a zero dimension) too
Lattices ==
    {l \in {Lattice3D_new(w, h, d) :
               w \in 0..MaxCells, h \in 0..MaxCells, d \in 0..MaxCells} :
        size(l) <= MaxCells}

\* the array of test_step_lattice: centre of a 3x3x3 lattice and its four
\* x/y face neighbours at z = 1 set to 1
PlusLattice == Lattice3D_new(3, 3, 3)

PlusStates ==
    LET l == PlusLattice
        on == {index(l, 1, 1, 1), index(l, 0, 1, 1), index(l, 2, 1, 1),
               index(l, 1, 0, 1), index(l, 1, 2, 1)}
    IN  [i \in 1..size(l) |-> IF (i - 1) \in on THEN 1 ELSE 0]

NoLattice == Lattice3D_new(0, 0, 0)

\* nothing is called on its own and no parallel step runs
NoOther ==
    /\ args = << >>
    /\ ret = << >>
    /\ pending = {}
    /\ par_out = << >>
    /\ writes = << >>

\* nothing has been called yet, and there is no graph
LatticeIdle ==
    /\ mode = "lattice"
    /\ pc = "idle"
    /\ NoOther
    /\ x = 0 /\ y = 0 /\ z = 0 /\ node = 0
    /\ next_states = << >>
    /\ snapshot = << >>
    /\ gen = 0
    /\ origin = states
    /\ adjacency = EmptyMap
    /\ adj0 = EmptyMap
    /\ num_nodes = 0
    /\ calls = << >>
    /\ touched = FALSE

\* the caller holds a lattice and a state array of length size(), or the
\* lattice and array of test_step_lattice
InitLattice ==
    /\ \/ /\ lattice \in Lattices
          /\ states \in Arrays(size(lattice))
          /\ rule \in Rules
       \/ /\ lattice = PlusLattice
          /\ states = PlusStates
          /\ rule = "conway_3d_rule"
    /\ LatticeIdle

\* the caller holds a lattice with cells and a state array one cell shorter
\* or longer than size()
InitMismatch ==
    /\ lattice \in {l \in Lattices : size(l) >= 1}
    /\ \E n \in {size(lattice) - 1, size(lattice) + 1} :
          /\ n >= 0
          /\ states \in Arrays(n)
    /\ rule \in Rules
    /\ LatticeIdle

-----------------------------------------------------------------------------
(* step_lattice_3d *)

\* let mut next_states = vec![0; states.len()]; the loops start
StepLatticeBegin ==
    /\ mode = "lattice"
    /\ pc = "idle"
    /\ next_states' = Zeros(Len(states))
    /\ snapshot' = states
    /\ x' = 0 /\ y' = 0 /\ z' = 0
    /\ pc' = "loop"
    /\ UNCHANGED <<other_vars,
                   mode, lattice, states, rule, node, gen, graph_vars>>

\* the three nested ranges are exhausted (or one of them is empty)
LatticeLoopDone == size(lattice) = 0 \/ z >= lattice.depth

\* mutant: the update is made in place, in the caller's array
StepLatticeCellInPlace ==
    /\ mode = "lattice"
    /\ pc = "loop"
    /\ ~LatticeLoopDone
    /\ LET idx == index(lattice, x, y, z)
           neighbors == moore_neighbors(lattice, x, y, z)
       IN  IF IndexFault(states, idx, neighbors)
           THEN /\ pc' = "panic"
                /\ next_states' = << >>
                /\ UNCHANGED <<x, y, z, states>>
           ELSE /\ next_states' =
                      Put(next_states, idx, CellValue(states, rule, idx, neighbors))
                /\ states' =
                      Put(states, idx, CellValue(states, rule, idx, neighbors))
                /\ pc' = "loop"
                /\ IF x + 1 < lattice.width
                   THEN /\ x' = x + 1
                        /\ UNCHANGED <<y, z>>
                   ELSE /\ x' = 0
                        /\ IF y + 1 < lattice.height
                           THEN /\ y' = y + 1
                                /\ UNCHANGED z
                           ELSE /\ y' = 0
                                /\ z' = z + 1
    /\ UNCHANGED <<other_vars,
                   mode, lattice, rule, node, snapshot, gen, graph_vars>>

\* one iteration of the innermost loop body, then the loop increments
StepLatticeCell ==
    /\ mode = "lattice"
    /\ pc = "loop"
    /\ ~LatticeLoopDone
    /\ LET idx == index(lattice, x, y, z)
           neighbors == moore_neighbors(lattice, x, y, z)
       IN  IF IndexFault(states, idx, neighbors)
           THEN /\ pc' = "panic"
                /\ next_states' = << >>
                /\ UNCHANGED <<x, y, z>>
           ELSE /\ next_states' =
                      Put(next_states, idx, CellValue(states, rule, idx, neighbors))
                /\ pc' = "loop"
                /\ IF x + 1 < lattice.width
                   THEN /\ x' = x + 1
                        /\ UNCHANGED <<y, z>>
                   ELSE /\ x' = 0
                        /\ IF y + 1 < lattice.height
                           THEN /\ y' = y + 1
                                /\ UNCHANGED z
                           ELSE /\ y' = 0
                                /\ z' = z + 1
    /\ UNCHANGED <<other_vars,
                   mode, lattice, states, rule, node, snapshot, gen, graph_vars>>

\* next_states is returned
StepLatticeReturn ==
    /\ mode = "lattice"
    /\ pc = "loop"
    /\ LatticeLoopDone
    /\ pc' = "done"
    /\ UNCHANGED <<other_vars,
                   mode, lattice, states, rule, x, y, z, node, next_states,
                   snapshot, gen, graph_vars>>

\* the caller replaces its state array with the returned one
Tick ==
    /\ mode = "lattice"
    /\ pc = "done"
    /\ gen < MaxGen
    /\ states' = next_states
    /\ gen' = gen + 1
    /\ pc' = "idle"
    /\ UNCHANGED <<other_vars,
                   mode, lattice, rule, x, y, z, node, next_states, snapshot,
                   graph_vars>>

-----------------------------------------------------------------------------
(* GraphCA: construction, add_edge, direct state writes, step_graph *)

RECURSIVE AddEdges(_, _)
AddEdges(adj, es) ==
    IF es = << >> THEN adj
    ELSE AddEdges(add_edge(adj, es[1][1], es[1][2]), Tail(es))

\* the graph of test_graph_ca
TestEdges == <<<<0, 1>>, <<0, 2>>, <<1, 2>>, <<2, 3>>, <<3, 4>>>>

TestNodes == 5

\* GraphCA::new(n)
GraphCA_new(n) ==
    /\ num_nodes = n
    /\ states = Zeros(n)
    /\ adjacency = EmptyMap
    /\ calls = << >>
    /\ touched = FALSE

\* the graph as test_graph_ca has it when it calls step_graph
TestGraph ==
    /\ num_nodes = TestNodes
    /\ states = Put(Put(Zeros(TestNodes), 0, 1), 1, 1)
    /\ adjacency = AddEdges(EmptyMap, TestEdges)
    /\ calls = TestEdges
    /\ touched = TRUE

\* no step function has been called yet, and there is no lattice
GraphIdle ==
    /\ mode = "graph"
    /\ lattice = NoLattice
    /\ NoOther
    /\ pc = "idle"
    /\ x = 0 /\ y = 0 /\ z = 0 /\ node = 0
    /\ next_states = << >>
    /\ snapshot = << >>
    /\ adj0 = EmptyMap
    /\ gen = 0
    /\ origin = << >>

\* a new graph of 0..MaxNodes nodes, or the graph of test_graph_ca
InitGraph ==
    /\ \/ /\ \E n \in 0..MaxNodes : GraphCA_new(n)
          /\ rule \in Rules
       \/ /\ TestGraph
          /\ rule = "conway_3d_rule"
    /\ GraphIdle

\* graph.add_edge(from, to); ids are not validated, so one id past the last
\* node is among the inputs
AddEdge ==
    /\ mode = "graph"
    /\ pc = "idle"
    /\ Len(calls) < MaxEdges
    /\ \E from \in 0..Len(states), to \in 0..Len(states) :
          /\ adjacency' = add_edge(adjacency, from, to)
          /\ calls' = Append(calls, <<from, to>>)
    /\ UNCHANGED <<other_vars,
                   mode, lattice, states, rule, pc, x, y, z, node, next_states,
                   snapshot, gen, origin, adj0, num_nodes, touched>>

\* graph.states[k] = v, written by the caller between ticks
WriteState ==
    /\ mode = "graph"
    /\ pc = "idle"
    /\ \E k \in 0..(Len(states) - 1), v \in Codes :
          states' = Put(states, k, v)
    /\ touched' = TRUE
    /\ UNCHANGED <<other_vars,
                   mode, lattice, rule, pc, x, y, z, node, next_states,
                   snapshot, gen, origin, adjacency, adj0, num_nodes, calls>>

\* let mut next_states = vec![0; graph.states.len()]; the loop starts
StepGraphBegin ==
    /\ mode = "graph"
    /\ pc = "idle"
    /\ next_states' = Zeros(Len(states))
    /\ snapshot' = states
    /\ adj0' = adjacency
    /\ node' = 0
    /\ pc' = "loop"
    /\ UNCHANGED <<other_vars,
                   mode, lattice, states, rule, x, y, z, gen, origin,
                   adjacency, num_nodes, calls, touched>>

\* mutant: a neighbour id past the end is skipped instead of indexed
StepGraphNodeDropInvalid ==
    /\ mode = "graph"
    /\ pc = "loop"
    /\ node < Len(states)
    /\ LET neighbors == SelectSeq(get_neighbors(adjacency, node),
                                  LAMBDA n : n < Len(states))
       IN  /\ next_states' =
                Put(next_states, node, CellValue(states, rule, node, neighbors))
           /\ pc' = "loop"
           /\ node' = node + 1
    /\ UNCHANGED <<other_vars,
                   mode, lattice, states, rule, x, y, z, snapshot, gen,
                   graph_vars>>

\* one iteration of the loop over 0..graph.states.len()
StepGraphNode ==
    /\ mode = "graph"
    /\ pc = "loop"
    /\ node < Len(states)
    /\ LET neighbors == get_neighbors(adjacency, node)
       IN  IF IndexFault(states, node, neighbors)
           THEN /\ pc' = "panic"
                /\ next_states' = << >>
                /\ UNCHANGED node
           ELSE /\ next_states' =
                      Put(next_states, node, CellValue(states, rule, node, neighbors))
                /\ pc' = "loop"
                /\ node' = node + 1
    /\ UNCHANGED <<other_vars,
                   mode, lattice, states, rule, x, y, z, snapshot, gen,
                   graph_vars>>

\* next_states is returned
StepGraphReturn ==
    /\ mode = "graph"
    /\ pc = "loop"
    /\ node >= Len(states)
    /\ pc' = "done"
    /\ UNCHANGED <<other_vars,
                   mode, lattice, states, rule, x, y, z, node, next_states,
                   snapshot, gen, graph_vars>>

-----------------------------------------------------------------------------
(* moore_neighbors and conway_3d_rule called on their own *)

\* no stepping scenario: no array, no graph
NoStep ==
    /\ states = << >>
    /\ next_states = << >>
    /\ snapshot = << >>
    /\ origin = << >>
    /\ gen = 0
    /\ node = 0
    /\ adjacency = EmptyMap
    /\ adj0 = EmptyMap
    /\ num_nodes = 0
    /\ calls = << >>
    /\ touched = FALSE
    /\ pending = {}
    /\ par_out = << >>
    /\ writes = << >>

\* a lattice with every dimension in 1..MaxSide and a cell inside it
InitGeometry ==
    /\ mode = "geometry"
    /\ lattice \in {Lattice3D_new(w, h, d) :
                      w \in 1..MaxSide, h \in 1..MaxSide, d \in 1..MaxSide}
    /\ x \in 0..(lattice.width - 1)
    /\ y \in 0..(lattice.height - 1)
    /\ z \in 0..(lattice.depth - 1)
    /\ args = <<x, y, z>>
    /\ ret = << >>
    /\ rule = "conway_3d_rule"
    /\ pc = "idle"
    /\ NoStep

\* lattice.moore_neighbors(x, y, z)
MooreNeighbors ==
    /\ mode = "geometry"
    /\ pc = "idle"
    /\ ret' = moore_neighbors(lattice, args[1], args[2], args[3])
    /\ pc' = "done"
    /\ UNCHANGED <<mode, lattice, states, rule, x, y, z, node, next_states,
                   snapshot, gen, graph_vars, args, pending, par_out, writes>>

\* a state code and a neighbour count
InitRule ==
    /\ mode = "rule"
    /\ args \in {<<current, neighbor_count>> :
                   current \in 0..(U8 - 1), neighbor_count \in 0..MaxCount}
    /\ ret = << >>
    /\ lattice = NoLattice
    /\ x = 0 /\ y = 0 /\ z = 0
    /\ rule = "conway_3d_rule"
    /\ pc = "idle"
    /\ NoStep

\* conway_3d_rule(current, neighbor_count)
ConwayRule ==
    /\ mode = "rule"
    /\ pc = "idle"
    /\ ret' = conway_3d_rule(args[1], args[2])
    /\ pc' = "done"
    /\ UNCHANGED <<mode, lattice, states, rule, x, y, z, node, next_states,
                   snapshot, gen, graph_vars, args, pending, par_out, writes>>

\* the lattice and array of test_step_lattice, stepped with conway_3d_rule
InitPlus ==
    /\ lattice = PlusLattice
    /\ states = PlusStates
    /\ rule = "conway_3d_rule"
    /\ LatticeIdle

-----------------------------------------------------------------------------
(* One step with a worker per cell: each worker runs the body of the loop of
   step_lattice_3d or step_graph for its own cell, in any order, after the
   sequential step has returned its array for the same input *)

\* the coordinates the loops of step_lattice_3d range over
Cells(l) == (0..(l.width - 1)) \X (0..(l.height - 1)) \X (0..(l.depth - 1))

\* a lattice of 1..MaxWorkers cells with an array of length size(), or the
\* graph of test_graph_ca
InitParallel ==
    \/ /\ lattice \in {l \in Lattices : size(l) \in 1..MaxWorkers}
       /\ states \in Arrays(size(lattice))
       /\ rule \in Rules
       /\ LatticeIdle
    \/ /\ TestGraph
       /\ rule \in Rules
       /\ GraphIdle

\* the output array is allocated and one worker per cell is started
ParBegin ==
    /\ pc = "done"
    /\ pc' = "par"
    /\ par_out' = Zeros(Len(states))
    /\ writes' = Zeros(Len(states))
    /\ pending' = IF mode = "lattice" THEN Cells(lattice)
                  ELSE 0..(Len(states) - 1)
    /\ UNCHANGED <<mode, lattice, states, rule, x, y, z, node, next_states,
                   snapshot, gen, graph_vars, args, ret>>

\* the worker of lattice cell c runs the loop body for c
WorkerLattice ==
    /\ mode = "lattice"
    /\ pc = "par"
    /\ \E c \in pending :
          LET idx == index(lattice, c[1], c[2], c[3])
              neighbors == moore_neighbors(lattice, c[1], c[2], c[3])
          IN  /\ par_out' =
                    Put(par_out, idx, CellValue(states, rule, idx, neighbors))
              /\ writes' = Put(writes, idx, Get(writes, idx) + 1)
              /\ pending' = pending \ {c}
    /\ UNCHANGED <<mode, lattice, states, rule, pc, x, y, z, node, next_states,
                   snapshot, gen, graph_vars, args, ret>>

\* the worker of graph node n runs the loop body for n
WorkerGraph ==
    /\ mode = "graph"
    /\ pc = "par"
    /\ \E n \in pending :
          LET neighbors == get_neighbors(adjacency, n)
          IN  /\ par_out' =
                    Put(par_out, n, CellValue(states, rule, n, neighbors))
              /\ writes' = Put(writes, n, Get(writes, n) + 1)
              /\ pending' = pending \ {n}
    /\ UNCHANGED <<mode, lattice, states, rule, pc, x, y, z, node, next_states,
                   snapshot, gen, graph_vars, args, ret>>

\* the barrier: every worker has finished, the output array is handed out
Barrier ==
    /\ pc = "par"
    /\ pending = {}
    /\ pc' = "joined"
    /\ UNCHANGED <<mode, lattice, states, rule, x, y, z, node, next_states,
                   snapshot, gen, graph_vars, args, ret, pending, par_out,
                   writes>>

-----------------------------------------------------------------------------
(* Specifications *)

Init == InitLattice \/ InitGraph

NextLattice ==
    \/ StepLatticeBegin
    \/ StepLatticeCell
    \/ StepLatticeReturn
    \/ Tick

NextGraph ==
    \/ AddEdge
    \/ WriteState
    \/ StepGraphBegin
    \/ StepGraphNode
    \/ StepGraphReturn

Next == NextLattice \/ NextGraph

Spec == Init /\ [][Next]_vars

\* moore_neighbors called on every cell of every small lattice
SpecGeometry == InitGeometry /\ [][MooreNeighbors]_vars

\* conway_3d_rule called on every state code and count, and the step of
\* test_step_lattice
InitRuleOrPlus == InitRule \/ InitPlus

NextRule == ConwayRule \/ NextLattice

SpecRule == InitRuleOrPlus /\ [][NextRule]_vars

\* a sequential step, then the same step with one worker per cell
NextParallel ==
    \/ StepLatticeBegin
    \/ StepLatticeCell
    \/ StepLatticeReturn
    \/ WriteState
    \/ StepGraphBegin
    \/ StepGraphNode
    \/ StepGraphReturn
    \/ ParBegin
    \/ WorkerLattice
    \/ WorkerGraph
    \/ Barrier

SpecParallel == InitParallel /\ [][NextParallel]_vars

\* step_lattice_3d called with an array whose length is not size()
SpecMismatch == InitMismatch /\ [][NextLattice]_vars

-----------------------------------------------------------------------------
(* Properties of the lattice step *)

AllZero(a) == \A i \in 1..Len(a) : a[i] = 0

\* the number of positions of nb that hold a cell that is non-zero in a
LiveIn(a, nb) == Cardinality({k \in 1..Len(nb) : Get(a, nb[k]) # 0})

\* C1: step_lattice_3d is a synchronous update. For an input array of length
\* size() the call does not fail, the array it returns has length size(),
\* and every in-bounds cell of it holds rule(in[i], number of moore_neighbors
\* n with in[n] != 0), where in is the array as it was when the call began.
C1_SynchronousStep ==
    (mode = "lattice" /\ pc # "idle" /\ Len(snapshot) = size(lattice)) =>
        /\ pc # "panic"
        /\ Len(next_states) = size(lattice)
        /\ pc = "done" =>
              \A cx \in 0..(lattice.width - 1), cy \in 0..(lattice.height - 1),
                 cz \in 0..(lattice.depth - 1) :
                 Get(next_states, index(lattice, cx, cy, cz)) =
                     Apply(rule, Get(snapshot, index(lattice, cx, cy, cz)),
                           LiveIn(snapshot, moore_neighbors(lattice, cx, cy, cz)))

\* a finished step in which some cell had a live neighbour of code 2
C1_Witness ==
    /\ mode = "lattice"
    /\ pc = "done"
    /\ rule = "sum_rule"
    /\ \E i \in 1..Len(snapshot) : snapshot[i] = 2
    /\ \E i \in 1..Len(next_states) : next_states[i] # snapshot[i]

\* C2: a step never mutates its input. From the moment step_lattice_3d or
\* step_graph is entered until the caller takes the result, the state array
\* holds what it held on entry, and so does graph.adjacency.
C2_InputUntouched ==
    pc # "idle" => (states = snapshot /\ adjacency = adj0)

\* a lattice step that returned an array different from its input
C2_Witness ==
    /\ mode = "lattice"
    /\ pc = "done"
    /\ next_states # states
    /\ ~AllZero(states)

\* C3: under conway_3d_rule a fully-Void lattice stays fully-Void. If the
\* array of generation 0 has length size() and is all zero, every array the
\* caller holds and every array a step builds or returns is all zero.
C3_VoidStaysVoid ==
    (mode = "lattice" /\ rule = "conway_3d_rule"
       /\ Len(origin) = size(lattice) /\ AllZero(origin)) =>
        /\ pc # "panic"
        /\ AllZero(states)
        /\ Len(states) = size(lattice)
        /\ pc # "idle" => (AllZero(next_states) /\ Len(next_states) = size(lattice))

\* the second step of an all-Void lattice with cells has returned
C3_Witness ==
    /\ mode = "lattice"
    /\ rule = "conway_3d_rule"
    /\ size(lattice) > 1
    /\ Len(origin) = size(lattice) /\ AllZero(origin)
    /\ gen >= 1
    /\ pc = "done"

\* C5 as stated: called with an array whose length differs from size(),
\* shorter or longer, step_lattice_3d fails and never returns an array.
C5_MismatchFails ==
    (mode = "lattice" /\ pc # "idle" /\ Len(snapshot) # size(lattice)) =>
        pc # "done"

\* what the code does for the two kinds of mismatch: a shorter array always
\* faults; a longer one never does, and the array returned has the length of
\* the input, not size()
C5_ShorterFaultsLongerReturns ==
    (mode = "lattice" /\ pc # "idle") =>
        /\ Len(snapshot) < size(lattice) => pc # "done"
        /\ Len(snapshot) > size(lattice) => pc # "panic"
        /\ (Len(snapshot) > size(lattice) /\ pc = "done") =>
              Len(next_states) = Len(snapshot)

\* the in-bounds cells at Chebyshev distance 1 from (cx, cy, cz)
Abs(i) == IF i < 0 THEN -i ELSE i

Max3(a, b, c) ==
    IF a >= b /\ a >= c THEN a ELSE IF b >= c THEN b ELSE c

Ring(l, cx, cy, cz) ==
    {c \in (0..(l.width - 1)) \X (0..(l.height - 1)) \X (0..(l.depth - 1)) :
        Max3(Abs(c[1] - cx), Abs(c[2] - cy), Abs(c[3] - cz)) = 1}

\* C4: for an in-bounds cell moore_neighbors returns, without duplicates and
\* without wrap-around, exactly the linear indices of the in-bounds cells at
\* Chebyshev distance 1, never the cell's own index: 26 for a strictly
\* interior cell, 7 for a corner of a lattice with every dimension >= 2.
C4_MooreNeighborhood ==
    (mode = "geometry" /\ pc = "done") =>
        LET l == lattice
            ring == Ring(l, x, y, z)
            interior == /\ 0 < x /\ x < l.width - 1
                        /\ 0 < y /\ y < l.height - 1
                        /\ 0 < z /\ z < l.depth - 1
            corner == /\ x \in {0, l.width - 1}
                      /\ y \in {0, l.height - 1}
                      /\ z \in {0, l.depth - 1}
        IN  /\ \A i, j \in 1..Len(ret) : i # j => ret[i] # ret[j]
            /\ {ret[i] : i \in 1..Len(ret)} =
                  {c[3] * (l.width * l.height) + c[2] * l.width + c[1] : c \in ring}
            /\ Len(ret) = Cardinality(ring)
            /\ \A i \in 1..Len(ret) :
                  ret[i] # z * (l.width * l.height) + y * l.width + x
            /\ interior => Len(ret) = 26
            /\ (corner /\ l.width >= 2 /\ l.height >= 2 /\ l.depth >= 2) =>
                  Len(ret) = 7

\* the neighbours of a strictly interior cell have been computed
C4_Witness ==
    /\ mode = "geometry"
    /\ pc = "done"
    /\ Len(ret) = 26

\* the centre of the lattice of test_step_lattice
PlusCentre == index(PlusLattice, 1, 1, 1)

\* C10: conway_3d_rule is total and returns 1 exactly when current is 0 or 1
\* and neighbor_count is in [4,7], and 0 otherwise, every current >= 2
\* included; in the step of test_step_lattice the centre has live count 4
\* and survives, and every cell whose live count is outside [4,7] becomes 0.
C10_ConwayTable ==
    /\ (mode = "rule" /\ pc = "done") =>
          /\ ret \in {0, 1}
          /\ ret = 1 <=> (args[1] \in {0, 1} /\ 4 <= args[2] /\ args[2] <= 7)
          /\ args[1] >= 2 => ret = 0
    /\ (mode = "lattice" /\ lattice = PlusLattice /\ snapshot = PlusStates
          /\ rule = "conway_3d_rule" /\ pc # "idle") =>
          /\ pc # "panic"
          /\ Len(next_states) = 27
          /\ LiveIn(snapshot, moore_neighbors(lattice, 1, 1, 1)) = 4
          /\ pc = "done" =>
                /\ Get(next_states, PlusCentre) = 1
                /\ \A cx \in 0..2, cy \in 0..2, cz \in 0..2 :
                      LiveIn(snapshot, moore_neighbors(lattice, cx, cy, cz))
                          \notin 4..7 =>
                              Get(next_states, index(lattice, cx, cy, cz)) = 0

\* the rule has answered for a state code above 1 with a count in [4,7]
C10_Witness ==
    /\ mode = "rule"
    /\ pc = "done"
    /\ args[1] >= 2
    /\ args[2] \in 4..7

-----------------------------------------------------------------------------
(* Properties of the parallel step *)

\* C9: the per-cell computations are order-independent. Whatever the order
\* in which the workers run, no output slot is written twice (distinct
\* in-bounds cells have distinct linear indices), every slot written holds
\* what the sequential step put there, and after the barrier the array is
\* the one the sequential step_lattice_3d / step_graph returned.
C9_OrderIndependent ==
    pc \in {"par", "joined"} =>
        /\ \A i \in 1..Len(writes) :
              /\ writes[i] <= 1
              /\ writes[i] = 1 => par_out[i] = next_states[i]
        /\ mode = "lattice" =>
              \A c, d \in Cells(lattice) :
                  c # d => c[3] * (lattice.width * lattice.height)
                             + c[2] * lattice.width + c[1]
                           # d[3] * (lattice.width * lattice.height)
                             + d[2] * lattice.width + d[1]
        /\ pc = "joined" =>
              /\ par_out = next_states
              /\ \A i \in 1..Len(writes) : writes[i] = 1

\* the workers of a lattice with two rows have all finished and the array
\* they built is not the zero array it started as
C9_Witness ==
    /\ mode = "lattice"
    /\ pc = "joined"
    /\ lattice.width >= 2 /\ lattice.height >= 2
    /\ ~AllZero(par_out)

-----------------------------------------------------------------------------
(* Properties of the graph *)

\* the 'to' values of the add_edge calls whose 'from' is k, in call order
EdgesFrom(k) ==
    LET own == SelectSeq(calls, LAMBDA c : c[1] = k)
    IN  [i \in 1..Len(own) |-> own[i][2]]

\* the nodes below num_nodes whose own adjacency list holds an id that is
\* not below num_nodes
BadNodes ==
    {k \in 0..(Len(states) - 1) :
        \E i \in 1..Len(get_neighbors(adjacency, k)) :
            get_neighbors(adjacency, k)[i] >= Len(states)}

\* some adjacency list, of any key, holds an id that is not below num_nodes
SomeListInvalid ==
    \E k \in DOMAIN adjacency :
        \E i \in 1..Len(adjacency[k]) : adjacency[k][i] >= Len(states)

LiveOut(a, n) ==
    Cardinality({i \in 1..Len(calls) : calls[i][1] = n /\ Get(a, calls[i][2]) # 0})

\* C7: step_graph counts only outgoing adjacency. When every neighbour id is
\* below num_nodes the call does not fail, the array it returns has length
\* num_nodes, and every node n of it holds rule(states[n], number of
\* add_edge(n, m) calls, with multiplicity, whose m is non-zero); edges into
\* n and nodes without a list add nothing. For the graph of test_graph_ca
\* one conway_3d_rule step returns the all-zero array.
C7_OutgoingOnly ==
    (mode = "graph" /\ pc # "idle" /\ ~SomeListInvalid) =>
        /\ pc # "panic"
        /\ Len(next_states) = num_nodes
        /\ pc = "done" =>
              \A n \in 0..(num_nodes - 1) :
                  Get(next_states, n) =
                      Apply(rule, Get(snapshot, n), LiveOut(snapshot, n))
        /\ (pc = "done" /\ calls = TestEdges /\ rule = "conway_3d_rule"
              /\ snapshot = <<1, 1, 0, 0, 0>>) =>
                  next_states = <<0, 0, 0, 0, 0>>

\* a finished step on a graph where a live node has an edge into a node that
\* has no live out-neighbour
C7_Witness ==
    /\ mode = "graph"
    /\ pc = "done"
    /\ ~SomeListInvalid
    /\ \E i \in 1..Len(calls) :
          /\ calls[i][1] # calls[i][2]
          /\ calls[i][1] < num_nodes
          /\ Get(snapshot, calls[i][1]) # 0
          /\ LiveOut(snapshot, calls[i][2]) = 0
          /\ LiveOut(snapshot, calls[i][1]) > 0

\* C8: after GraphCA::new(n) and any sequence of add_edge calls,
\* get_neighbors(k) is the sequence of 'to' values of the calls with from = k
\* in call order (duplicates and self-loops kept, nothing added to another
\* node's list, empty for a node never used as 'from'), and the state array
\* has length n and, as long as the caller has not written it, is all zero.
C8_AdjacencyIsCallLog ==
    mode = "graph" =>
        /\ \A k \in 0..(num_nodes + 1) : get_neighbors(adjacency, k) = EdgesFrom(k)
        /\ DOMAIN adjacency = {calls[i][1] : i \in 1..Len(calls)}
        /\ Len(states) = num_nodes
        /\ ~touched => AllZero(states)

\* the same edge added twice, and an edge with no reciprocal
C8_Witness ==
    /\ mode = "graph"
    /\ ~touched
    /\ Len(calls) >= 2
    /\ calls[1] = calls[2]
    /\ calls[1][1] # calls[1][2]

=============================================================================
